---- MODULE Spec2Model ----
(***************************************************************************)
(* Model of src/stream_compare.py: the live leg (run_stream,               *)
(* subscribe_and_collect, StreamState), the normalizer                     *)
(* (parse_trades_from_result), the paginated query with retries and the    *)
(* reconciliation loop (run_query_and_compare), and main.                  *)
(*                                                                         *)
(* Python values are modelled as follows.                                  *)
(*   - a str that the program inspects character by character (blocktime)  *)
(*     is a tuple of one-character strings;                                *)
(*   - an opaque str (signature) is a TLA+ string;                         *)
(*   - a JSON scalar that may be an int, a str or None (Index, Signature)  *)
(*     is a record [ty, s], s being its str() text;                        *)
(*   - an Optional (min_time, max_time) is a tuple of length 0 (None) or 1.*)
(***************************************************************************)
EXTENDS Integers, Sequences, FiniteSets, TLC

\* ---------------------------------------------------------------- bounds
\* records the live leg accepts before the subscription stops delivering
MaxStream == 2
\* full pages the query source can deliver before its data runs out
MaxFull == 1
\* trades in one subscription payload
MaxPayload == 2

\* ------------------------------------------------------ program constants
\* QUERY_LIMIT (25_000 in the source) scaled down to 2 records per page
QUERY_LIMIT == 2
QUERY_MAX_RETRIES == 4
\* width of YYYY-MM-DDTHH:MM:SS in to_sec
SEC_WIDTH == 19

\* ------------------------------------------------------- Python scalars
PyNone == [ty |-> "none", s |-> "None"]
PyInt0 == [ty |-> "int", s |-> "0"]
PyInt1 == [ty |-> "int", s |-> "1"]
PyStr(text) == [ty |-> "str", s |-> text]

\* bool(v)
Truthy(v) ==
    CASE v.ty = "none" -> FALSE
      [] v.ty = "int"  -> v.s # "0"
      [] v.ty = "str"  -> v.s # ""

\* v or d
PyOr(v, d) == IF Truthy(v) THEN v ELSE d

\* the text csv.DictWriter writes for a value, which is what DictReader
\* reads back, and also the text of str(v)
CsvText(v) == v.s

\* ------------------------------------------------------------ timestamps
TimePrefix == <<"2","0","2","4","-","0","1","-","0","1","T","0","0",":","0","0",":">>
T05Z == TimePrefix \o <<"0","5","Z">>
T05f == TimePrefix \o <<"0","5",".","5","Z">>
T07Z == TimePrefix \o <<"0","7","Z">>
T05 == TimePrefix \o <<"0","5">>
T10 == TimePrefix \o <<"1","0">>

\* code point of a character (Python compares str by code point)
Ord(c) ==
    CASE c = " " -> 32 [] c = "-" -> 45 [] c = "." -> 46
      [] c = "0" -> 48 [] c = "1" -> 49 [] c = "2" -> 50 [] c = "3" -> 51
      [] c = "4" -> 52 [] c = "5" -> 53 [] c = "6" -> 54 [] c = "7" -> 55
      [] c = "8" -> 56 [] c = "9" -> 57 [] c = ":" -> 58
      [] c = "T" -> 84 [] c = "Z" -> 90

\* a < b on Python str
LexLess(a, b) ==
    \E i \in 1..(Len(b)) :
        /\ i <= Len(a) + 1
        /\ \A j \in 1..(i - 1) : a[j] = b[j]
        /\ \/ i = Len(a) + 1
           \/ i <= Len(a) /\ Ord(a[i]) < Ord(b[i])

\* str.strip()
RECURSIVE LStrip(_)
LStrip(s) == IF s # <<>> /\ Head(s) = " " THEN LStrip(Tail(s)) ELSE s
RECURSIVE RStrip(_)
RStrip(s) ==
    IF s # <<>> /\ s[Len(s)] = " " THEN RStrip(SubSeq(s, 1, Len(s) - 1)) ELSE s
Strip(s) == LStrip(RStrip(s))

\* to_sec without the cut to second precision
to_sec_uncut(s) == Strip(SelectSeq(s, LAMBDA c : c # "Z"))

to_sec(s) ==
    LET z == Strip(SelectSeq(s, LAMBDA c : c # "Z"))
    IN  IF Len(z) >= SEC_WIDTH THEN SubSeq(z, 1, SEC_WIDTH) ELSE z

\* line 43 with the comparison against since left out
at_time_boundary_tillonly(blocktime, since, till) ==
    IF blocktime = <<>> \/ since = <<>> \/ till = <<>>
    THEN FALSE
    ELSE to_sec(blocktime) = to_sec(till)

at_time_boundary(blocktime, since, till) ==
    IF blocktime = <<>> \/ since = <<>> \/ till = <<>>
    THEN FALSE
    ELSE to_sec(blocktime) = to_sec(since) \/ to_sec(blocktime) = to_sec(till)

\* ------------------------------------------------------------ raw inputs
\* one element of DEXTrades: a dict (Block.Time, Transaction.Signature,
\* Transaction.Index, Trade.Index) or something that is not a dict.
\* Time absent, null or "" is the empty tuple: all three are falsy.
Trade(time, sig, txi, tri) ==
    [dict |-> TRUE, Time |-> time, Signature |-> sig, TxIndex |-> txi, TradeIndex |-> tri]
NotADict ==
    [dict |-> FALSE, Time |-> <<>>, Signature |-> PyNone, TxIndex |-> PyNone,
     TradeIndex |-> PyNone]

RawTrades ==
    { Trade(T05Z, PyStr("S1"), PyInt0, PyInt0),
      Trade(T05f, PyStr("S2"), PyNone, PyNone),
      Trade(T07Z, PyNone, PyInt1, PyInt0),
      Trade(<<>>, PyStr("S1"), PyInt0, PyInt0),
      NotADict }

ListsUpTo(n) == UNION { [1..k -> RawTrades] : k \in 0..n }

\* a decoded payload: its outer shape and the value under Solana.DEXTrades
\*   shape "result"   an object with .data                    (line 87)
\*   shape "dict"     a dict, possibly under "payload"/"data" (lines 89-92)
\*   shape "other"    neither                                 (line 94)
\*   kind  "list"     DEXTrades is a list
\*   kind  "single"   DEXTrades is one trade, not a list      (line 103)
\*   kind  "none"     Solana or DEXTrades is missing          (lines 98-102)
Payload(shape, kind, trades) == [shape |-> shape, kind |-> kind, trades |-> trades]

StreamPayloads ==
    { Payload("result", "list", l) : l \in ListsUpTo(MaxPayload) }
    \cup { Payload("result", "single", <<t>>) : t \in RawTrades }
    \cup { Payload("result", "none", <<>>), Payload("other", "none", <<>>) }

\* client.execute returns the data dict; a page holds at most QUERY_LIMIT trades
QueryPayloads(maxlen) ==
    { Payload("dict", "list", l) : l \in ListsUpTo(maxlen) }
    \cup { Payload("dict", "none", <<>>) }

\* the trades of the worked example: S1 and S3 in the first second of the
\* window, S2 in the last
ScenarioTrades ==
    { Trade(T05, PyStr("S1"), PyInt0, PyInt0),
      Trade(T05, PyStr("S3"), PyInt0, PyInt0),
      Trade(T10, PyStr("S2"), PyInt1, PyInt0) }

ScenarioLists(n) == UNION { [1..k -> ScenarioTrades] : k \in 0..n }

ScenarioStreamPayloads ==
    { Payload("result", "list", l) : l \in ScenarioLists(MaxPayload) }
    \cup { Payload("result", "none", <<>>) }

ScenarioQueryPayloads(maxlen) ==
    { Payload("dict", "list", l) : l \in ScenarioLists(maxlen) }

\* ------------------------------------------------------------ normalizer
\* lines 107-120 for one trade: <<row>> when kept, <<>> when dropped
parse_keep(blocktime, signature) == blocktime # <<>> /\ signature.ty # "none"

parse_trade(t) ==
    LET blocktime == t.Time
        signature == PyOr(t.Signature, PyStr(""))
    IN  IF parse_keep(blocktime, signature)
        THEN << [blocktime   |-> blocktime,
                 signature   |-> CsvText(signature),
                 txn_index   |-> IF t.TxIndex.ty # "none" THEN t.TxIndex ELSE PyStr(""),
                 trade_index |-> IF t.TradeIndex.ty # "none" THEN t.TradeIndex
                                 ELSE PyStr("")] >>
        ELSE <<>>

RECURSIVE parse_loop(_)
parse_loop(trades) ==
    IF trades = <<>> THEN <<>>
    ELSE parse_trade(Head(trades)) \o parse_loop(Tail(trades))

\* lines 85-123; t.get on a non-dict raises and the except returns []
parse_trades_from_result(result) ==
    IF result.shape = "other" \/ result.kind = "none" THEN <<>>
    ELSE IF \E i \in 1..Len(result.trades) : ~result.trades[i].dict THEN <<>>
    ELSE parse_loop(result.trades)

\* ------------------------------------------------------------ CSV sinks
\* the row csv.DictWriter writes: every field as its text
CsvRow(blocktime, signature, txn_index, trade_index) ==
    [blocktime |-> blocktime, signature |-> signature,
     txn_index |-> CsvText(txn_index), trade_index |-> CsvText(trade_index)]

\* lines 152-157: the arguments subscribe_and_collect passes to write_trade
StreamRow(row) ==
    CsvRow(row.blocktime, row.signature,
           PyOr(row.txn_index, PyInt0), PyOr(row.trade_index, PyInt0))

\* lines 279-285: row_dict as written to the query and mismatch sinks
QueryRow(row) ==
    CsvRow(row.blocktime, row.signature, row.txn_index, row.trade_index)

\* line 211: key of a row read back from the stream CSV
StreamKey(csvrow) == <<csvrow.signature, csvrow.txn_index, csvrow.trade_index>>

\* line 286: key of a normalized query row
QueryKey(row) == <<row.signature, CsvText(row.txn_index), CsvText(row.trade_index)>>

\* lines 207-212
LoadStreamKeys(file) == { StreamKey(file[i]) : i \in 1..Len(file) }

\* ------------------------------------------------------------ StreamState
StreamState0 == [count |-> 0, min_time |-> <<>>, max_time |-> <<>>]

\* the max_time comparison turned around
UpdateRange_maxswapped(st, blocktime) ==
    [count    |-> st.count + 1,
     min_time |-> IF st.min_time = <<>> \/ LexLess(blocktime, st.min_time[1])
                  THEN <<blocktime>> ELSE st.min_time,
     max_time |-> IF st.max_time = <<>> \/ LexLess(blocktime, st.max_time[1])
                  THEN <<blocktime>> ELSE st.max_time]

\* line 70 without the comparison: min_time keeps the first blocktime
UpdateRange_minonce(st, blocktime) ==
    [count    |-> st.count + 1,
     min_time |-> IF st.min_time = <<>> THEN <<blocktime>> ELSE st.min_time,
     max_time |-> IF st.max_time = <<>> \/ LexLess(st.max_time[1], blocktime)
                  THEN <<blocktime>> ELSE st.max_time]

\* lines 69-73
UpdateRange(st, blocktime) ==
    [count    |-> st.count + 1,
     min_time |-> IF st.min_time = <<>> \/ LexLess(blocktime, st.min_time[1])
                  THEN <<blocktime>> ELSE st.min_time,
     max_time |-> IF st.max_time = <<>> \/ LexLess(st.max_time[1], blocktime)
                  THEN <<blocktime>> ELSE st.max_time]

\* lines 287-292: the class of one query row
Classify(key, bt, keys, snc, tll) ==
    IF key \in keys THEN "matched"
    ELSE IF at_time_boundary(bt, snc, tll) THEN "boundary_excluded"
    ELSE "missed"

\* ----------------------------------------------------------------- state
VARIABLES
    pc,            \* position of main: collect, cancelled (line 184), ended
                   \* (line 182 returned), returned (line 323), fetch,
                   \* classify, page_end, done, failed
    task,          \* position of subscribe_and_collect: await, write, update
    sigint,        \* SIGINT delivered, task.cancel() requested
    pending,       \* rows of the current payload not yet passed to write_trade
    state,         \* StreamState: count, min_time, max_time
    stream_file,   \* rows of stream_trades.csv
    stream_open,   \* StreamState._file is not None
    raised,        \* the exception that ended the run: none, transport,
                   \* transient, other
    notice,        \* the skip notice printed: none, no_trades, no_range
    since, till,   \* query window (run_query_and_compare locals)
    stream_keys,   \* set of keys read from the stream CSV
    sinks,         \* query and mismatch files: unopened, open, closed
    query_file,    \* rows of query_trades.csv
    mismatch_file, \* rows of mismatches.csv
    offset,        \* page offset
    attempt,       \* index of the current attempt in the retry loop
    requested,     \* offsets passed to client.execute so far, in order,
                   \* retries of one offset listed once
    fetched_len,   \* <<n>>: trades in the page client.execute returned last;
                   \* <<>> before the first page
    rows,          \* normalized rows of the current page
    row_i,         \* index in rows of the next row to reconcile
    total_query_count, boundary_excluded_count, mismatch_count,
    outcomes,      \* class given to each row of query_file, in order
    progress,      \* the per-page progress lines printed
    summary        \* the FINAL STATS printed: <<>> or <<stats>>

live_vars == <<task, sigint, pending, state, stream_file, stream_open>>
frame_vars == <<since, till, stream_keys, offset, attempt, fetched_len, rows, row_i,
                total_query_count, boundary_excluded_count, mismatch_count>>
out_vars == <<sinks, query_file, mismatch_file, requested, outcomes, progress,
              summary>>
vars == <<pc, raised, notice, live_vars, frame_vars, out_vars>>

Stats(total, boundary, mismatch) ==
    [total_query_count |-> total, boundary_excluded_count |-> boundary,
     mismatch_count |-> mismatch]

Init ==
    /\ pc = "collect"
    /\ task = "await"
    /\ sigint = FALSE
    /\ pending = <<>>
    /\ state = StreamState0
    /\ stream_file = <<>>
    /\ stream_open = TRUE
    /\ raised = "none"
    /\ notice = "none"
    /\ since = <<>>
    /\ till = <<>>
    /\ stream_keys = {}
    /\ sinks = "unopened"
    /\ query_file = <<>>
    /\ mismatch_file = <<>>
    /\ offset = 0
    /\ attempt = 0
    /\ requested = <<>>
    /\ fetched_len = <<>>
    /\ rows = <<>>
    /\ row_i = 1
    /\ total_query_count = 0
    /\ boundary_excluded_count = 0
    /\ mismatch_count = 0
    /\ outcomes = <<>>
    /\ progress = <<>>
    /\ summary = <<>>

\* a handler that does nothing: SIGINT never cancels the task
CancelRequested_ignored(sig) == FALSE

\* line 177: the handler installed for SIGINT calls task.cancel(); the task
\* is then resumed at its await with CancelledError instead of a payload
CancelRequested(sig) == sig

\* -------------------------------------------------------------- live leg
\* line 150-151: the subscription yields a payload and it is normalized.
\* A payload dispatched after SIGINT never reaches the task: the handler
\* (task.cancel) is already scheduled on the loop.
Receive(result) ==
    LET rs == parse_trades_from_result(result)
    IN  /\ pc = "collect" /\ task = "await" /\ ~CancelRequested(sigint)
        /\ state.count + Len(rs) <= MaxStream
        /\ pending' = rs
        /\ task' = IF rs = <<>> THEN "await" ELSE "write"
        /\ UNCHANGED <<pc, raised, notice, sigint, state, stream_file, stream_open,
                       frame_vars, out_vars>>

\* write_trade without lines 62-68: the row never reaches the sink
WriteRow_unwritten ==
    /\ pc = "collect" /\ task = "write"
    /\ task' = "update"
    /\ UNCHANGED <<pc, raised, notice, sigint, pending, state, stream_file,
                   stream_open, frame_vars, out_vars>>

\* write_trade, lines 62-68: writerow and flush
WriteRow ==
    /\ pc = "collect" /\ task = "write"
    /\ stream_file' = Append(stream_file, StreamRow(Head(pending)))
    /\ task' = "update"
    /\ UNCHANGED <<pc, raised, notice, sigint, pending, state, stream_open,
                   frame_vars, out_vars>>

\* write_trade, lines 69-73, and the step of the for loop at line 151
UpdateState ==
    /\ pc = "collect" /\ task = "update"
    /\ state' = UpdateRange(state, Head(pending).blocktime)
    /\ pending' = Tail(pending)
    /\ task' = IF Tail(pending) = <<>> THEN "await" ELSE "write"
    /\ UNCHANGED <<pc, raised, notice, sigint, stream_file, stream_open,
                   frame_vars, out_vars>>

\* the operator presses Ctrl+C; the handler of line 177 is run by the loop
Sigint ==
    /\ pc = "collect" /\ ~sigint
    /\ sigint' = TRUE
    /\ UNCHANGED <<pc, raised, notice, task, pending, state, stream_file, stream_open,
                   frame_vars, out_vars>>

\* lines 177, 182-184: task.cancel() reaches the task at its await and
\* run_stream catches CancelledError; the state is left as collected
HandleCancel ==
    /\ pc = "collect" /\ CancelRequested(sigint) /\ task = "await"
    /\ sigint' = FALSE
    /\ pc' = "cancelled"
    /\ UNCHANGED <<raised, notice, task, pending, state, stream_file, stream_open,
                   frame_vars, out_vars>>

\* line 150: the inbound sequence ends and the task returns (line 182);
\* a cancel requested for the finished task is void
StreamEnd ==
    /\ pc = "collect" /\ task = "await"
    /\ sigint' = FALSE
    /\ pc' = "ended"
    /\ UNCHANGED <<raised, notice, task, pending, state, stream_file, stream_open,
                   frame_vars, out_vars>>

\* line 150: the transport raises; line 182 re-raises it, only CancelledError
\* is caught, so lines 190-194 are skipped and asyncio.run raises in main
StreamFail ==
    /\ pc = "collect" /\ task = "await"
    /\ sigint' = FALSE
    /\ raised' = "transport"
    /\ pc' = "failed"
    /\ UNCHANGED <<notice, task, pending, state, stream_file, stream_open,
                   frame_vars, out_vars>>

\* lines 185-194: the sink is closed and the state returned to main
CloseStream ==
    /\ pc \in {"cancelled", "ended"}
    /\ stream_open' = FALSE
    /\ pc' = "returned"
    /\ UNCHANGED <<raised, notice, task, sigint, pending, state, stream_file,
                   frame_vars, out_vars>>

\* ------------------------------------------------------------------ main
\* the test of line 324 with the wrong comparison: it never holds
NothingCollected_never(st) == st.count < 0

\* line 324
NothingCollected(st) == st.count = 0

\* lines 323-326: nothing was collected
SkipQuery ==
    /\ pc = "returned" /\ NothingCollected(state)
    /\ notice' = "no_trades"
    /\ pc' = "done"
    /\ UNCHANGED <<raised, live_vars, frame_vars, out_vars>>

\* run_stream started without being awaited: the query leg may begin while
\* the collector still runs
LiveLegOver_unawaited(p) == p \in {"collect", "returned"}

\* line 323: main goes on only when asyncio.run(run_stream) has returned
LiveLegOver(p) == p = "returned"

\* lines 327, 199-249: the window, the live index, the two sinks, the counters
StartQuery ==
    /\ LiveLegOver(pc) /\ ~NothingCollected(state)
    /\ IF state.min_time = <<>> \/ state.max_time = <<>>
          \/ state.min_time[1] = <<>> \/ state.max_time[1] = <<>>
       THEN /\ notice' = "no_range"
            /\ pc' = "done"
            /\ UNCHANGED <<frame_vars, out_vars>>
       ELSE /\ since' = state.min_time[1]
            /\ till' = state.max_time[1]
            /\ stream_keys' = LoadStreamKeys(stream_file)
            /\ sinks' = "open"
            /\ query_file' = <<>>
            /\ mismatch_file' = <<>>
            /\ mismatch_count' = 0
            /\ boundary_excluded_count' = 0
            /\ total_query_count' = 0
            /\ offset' = 0
            /\ attempt' = 0
            /\ pc' = "fetch"
            /\ UNCHANGED <<notice, fetched_len, rows, row_i, requested, outcomes,
                           progress, summary>>
    /\ UNCHANGED <<raised, live_vars>>

\* ------------------------------------------------------------- query leg
\* the offset is passed to client.execute (line 256)
Request(log, off) ==
    IF log # <<>> /\ log[Len(log)] = off THEN log ELSE Append(log, off)

\* leaving the with block closes both sinks; lines 300-314 print FINAL STATS
\* and run_query_and_compare returns: the retry loop's variable is gone
Summarize(total, boundary, mismatch) ==
    /\ sinks' = "closed"
    /\ summary' = <<Stats(total, boundary, mismatch)>>
    /\ attempt' = 0
    /\ pc' = "done"

\* the retry test off by one: a further attempt after the last one
MayRetry_offbyone(a) == a < QUERY_MAX_RETRIES

\* line 264: another attempt follows this failed one
MayRetry(a) == a < QUERY_MAX_RETRIES - 1

\* lines 256-269: client.execute raises one of the three connection errors
FetchFail ==
    /\ pc = "fetch"
    /\ requested' = Request(requested, offset)
    /\ IF MayRetry(attempt)
       THEN /\ attempt' = attempt + 1
            /\ UNCHANGED <<pc, raised, sinks>>
       ELSE /\ raised' = "transient"
            /\ sinks' = "closed"
            /\ pc' = "failed"
            /\ UNCHANGED attempt
    /\ UNCHANGED <<notice, live_vars, since, till, stream_keys, offset, fetched_len,
                   rows, row_i, total_query_count, boundary_excluded_count,
                   mismatch_count, query_file, mismatch_file, outcomes, progress,
                   summary>>

\* line 256: client.execute raises anything else, which no except catches
FetchError ==
    /\ pc = "fetch"
    /\ requested' = Request(requested, offset)
    /\ raised' = "other"
    /\ sinks' = "closed"
    /\ pc' = "failed"
    /\ UNCHANGED <<notice, live_vars, frame_vars, query_file, mismatch_file, outcomes,
                   progress, summary>>

\* the query source holds finitely many trades: after MaxFull full pages
\* the next page is short
PageCap(off) == IF off < MaxFull * QUERY_LIMIT THEN QUERY_LIMIT ELSE QUERY_LIMIT - 1

\* line 271: an empty normalized page ends the loop
EmptyPage(rs) == rs = <<>>

\* lines 256-257, 270-272: client.execute returns a page, the retry loop is
\* left (its variable is not read again before line 254 resets it, so it is
\* cleared here) and the page is normalized
FetchPage(result) ==
    LET rs == parse_trades_from_result(result)
    IN  /\ pc = "fetch"
        /\ requested' = Request(requested, offset)
        /\ fetched_len' = <<Len(result.trades)>>
        /\ rows' = rs
        /\ row_i' = 1
        /\ IF EmptyPage(rs)
           THEN Summarize(total_query_count, boundary_excluded_count, mismatch_count)
           ELSE /\ pc' = "classify"
                /\ attempt' = 0
                /\ UNCHANGED <<sinks, summary>>
        /\ UNCHANGED <<raised, notice, live_vars, since, till, stream_keys, offset,
                       total_query_count, boundary_excluded_count,
                       mismatch_count, query_file, mismatch_file, outcomes, progress>>

\* a miss counted without the boundary test
IsMiss_noboundary(key, bt, keys, snc, tll) == key \notin keys

\* lines 287-288: the row is counted as a miss
IsMiss(key, bt, keys, snc, tll) ==
    key \notin keys /\ ~at_time_boundary(bt, snc, tll)

\* the looked-up key added to the set, as a seen-set would be
IndexAfter_marked(keys, key) == keys \cup {key}

\* lines 286-287: stream_keys is only read by the membership test
IndexAfter(keys, key) == keys

\* the writerow of line 292 outside the else branch: every row is written
MismatchRows_all(file, row, missed) == Append(file, QueryRow(row))

\* lines 290-292: the mismatch sink after one row
MismatchRows(file, row, missed) ==
    IF missed THEN Append(file, QueryRow(row)) ELSE file

\* lines 273-292: the body of the row loop for rows[row_i]
Reconcile ==
    LET row == rows[row_i]
        bt  == row.blocktime
        key == QueryKey(row)
        excluded == key \notin stream_keys /\ at_time_boundary(bt, since, till)
        missed   == IsMiss(key, bt, stream_keys, since, till)
    IN  /\ pc = "classify"
        /\ total_query_count' = total_query_count + 1
        /\ query_file' = Append(query_file, QueryRow(row))
        /\ boundary_excluded_count' =
               IF excluded THEN boundary_excluded_count + 1 ELSE boundary_excluded_count
        /\ mismatch_count' = IF missed THEN mismatch_count + 1 ELSE mismatch_count
        /\ mismatch_file' = MismatchRows(mismatch_file, row, missed)
        /\ outcomes' = Append(outcomes, Classify(key, bt, stream_keys, since, till))
        /\ row_i' = row_i + 1
        /\ pc' = IF row_i = Len(rows) THEN "page_end" ELSE "classify"
        /\ stream_keys' = IndexAfter(stream_keys, key)
        /\ UNCHANGED <<raised, notice, live_vars, since, till, offset,
                       attempt, fetched_len, rows, sinks, requested, progress, summary>>

\* the short-page test off by one
LastPage_offbyone(rs) == Len(rs) < QUERY_LIMIT - 1

\* line 294: the page is the last one
LastPage(rs) == Len(rs) < QUERY_LIMIT

\* line 296 advancing by one record instead of one page
NextOffset_byone(off) == off + 1

\* line 296
NextOffset(off) == off + QUERY_LIMIT

\* lines 293-297, 252-254: progress line, then stop on a short page or
\* advance and start the retry loop of the next page
PageEnd ==
    /\ pc = "page_end"
    /\ progress' = Append(progress,
                          Stats(total_query_count, boundary_excluded_count,
                                mismatch_count))
    /\ IF LastPage(rows)
       THEN /\ Summarize(total_query_count, boundary_excluded_count, mismatch_count)
            /\ UNCHANGED offset
       ELSE /\ offset' = NextOffset(offset)
            /\ attempt' = 0
            /\ pc' = "fetch"
            /\ UNCHANGED <<sinks, summary>>
    /\ UNCHANGED <<raised, notice, live_vars, since, till, stream_keys,
                   fetched_len, rows, row_i, total_query_count,
                   boundary_excluded_count, mismatch_count, query_file, mismatch_file,
                   requested, outcomes>>

\* --------------------------------------------------------- specification
Next ==
    \/ \E result \in StreamPayloads : Receive(result)
    \/ WriteRow
    \/ UpdateState
    \/ Sigint
    \/ HandleCancel
    \/ StreamEnd
    \/ StreamFail
    \/ CloseStream
    \/ SkipQuery
    \/ StartQuery
    \/ FetchFail
    \/ FetchError
    \/ \E result \in QueryPayloads(PageCap(offset)) : FetchPage(result)
    \/ Reconcile
    \/ PageEnd

Spec == Init /\ [][Next]_vars

\* the same program fed with the trades of the worked example
ScenarioNext ==
    \/ \E result \in ScenarioStreamPayloads : Receive(result)
    \/ WriteRow
    \/ UpdateState
    \/ Sigint
    \/ HandleCancel
    \/ StreamEnd
    \/ StreamFail
    \/ CloseStream
    \/ SkipQuery
    \/ StartQuery
    \/ FetchFail
    \/ FetchError
    \/ \E result \in ScenarioQueryPayloads(PageCap(offset)) : FetchPage(result)
    \/ Reconcile
    \/ PageEnd

ScenarioSpec == Init /\ [][ScenarioNext]_vars

\* steps the program takes by itself: the event loop runs a ready task and
\* the synchronous code of main runs on. Nothing obliges the operator, the
\* subscription or the query source.
ProgramStep ==
    \/ WriteRow \/ UpdateState \/ HandleCancel \/ CloseStream
    \/ SkipQuery \/ StartQuery
    \/ Reconcile \/ PageEnd

Progress == WF_vars(ProgramStep)

FairSpec == Spec /\ Progress

\* ================================================================ claims

Range(f) == { f[i] : i \in 1..Len(f) }
Count(f, v) == Cardinality({ i \in 1..Len(f) : f[i] = v })

\* the run reached the summary
Summarized == pc = "done" /\ summary # <<>>

\* query records whose key is in the live index, read again from the sinks
MatchedRows ==
    { i \in 1..Len(query_file) : StreamKey(query_file[i]) \in LoadStreamKeys(stream_file) }

\* C1: at the summary, the reported total_query_count is the number of query
\* records whose key is in the live index plus boundary_excluded_count plus
\* mismatch_count, every query record being in exactly one of the classes.
C1_Conservation ==
    Summarized =>
        LET st == summary[1]
        IN  /\ st.total_query_count = Len(query_file)
            /\ st.total_query_count =
                   Cardinality(MatchedRows) + st.boundary_excluded_count
                   + st.mismatch_count
            /\ Len(outcomes) = Len(query_file)
            /\ MatchedRows = { i \in 1..Len(outcomes) : outcomes[i] = "matched" }
            /\ st.boundary_excluded_count = Count(outcomes, "boundary_excluded")
            /\ st.mismatch_count = Count(outcomes, "missed")
            /\ st.mismatch_count = Len(mismatch_file)

C1_Witness ==
    /\ Summarized
    /\ MatchedRows # {}
    /\ summary[1].boundary_excluded_count > 0
    /\ summary[1].mismatch_count > 0

\* the timestamp cut to whole seconds: everything from the sub-second
\* fraction or the zone suffix on is dropped
WholeSeconds(t) ==
    LET cut == { i \in 1..Len(t) : t[i] \in {".", "Z", "+"} }
    IN  IF cut = {} THEN t
        ELSE SubSeq(t, 1, (CHOOSE i \in cut : \A j \in cut : i <= j) - 1)

AtWindowEdge(t) ==
    WholeSeconds(t) = WholeSeconds(since) \/ WholeSeconds(t) = WholeSeconds(till)

\* C2: a query record whose blocktime, cut to whole seconds, equals the cut of
\* since or of till is never classified missed and never written to the
\* mismatch sink, whether or not its key is in the live index.
C2_BoundarySymmetry ==
    /\ \A i \in 1..Len(outcomes) :
           AtWindowEdge(query_file[i].blocktime) => outcomes[i] # "missed"
    /\ \A j \in 1..Len(mismatch_file) : ~AtWindowEdge(mismatch_file[j].blocktime)
    /\ mismatch_count = Len(mismatch_file)

C2_Witness ==
    \E i \in 1..Len(outcomes) :
        /\ query_file[i].blocktime \notin {since, till}
        /\ AtWindowEdge(query_file[i].blocktime)
        /\ StreamKey(query_file[i]) \notin stream_keys
        /\ outcomes[i] = "boundary_excluded"

\* a page with strictly fewer than page_size records has been fetched
ShortFetched == fetched_len # <<>> /\ fetched_len[1] < QUERY_LIMIT

\* C3: once a page with fewer than page_size records (an empty one included)
\* has been fetched, no further offset is requested, and the run eventually
\* reaches the summary.
C3_PaginationTermination ==
    /\ [][ShortFetched => requested' = requested /\ offset' = offset]_vars
    /\ ShortFetched ~> Summarized

C3_Witness ==
    /\ Summarized
    /\ fetched_len = <<QUERY_LIMIT - 1>>
    /\ requested = <<0, QUERY_LIMIT>>

\* C4: at most max_retries attempts are made for one offset; the run is
\* aborted by a transient failure only when the last of them fails, and no
\* further attempt follows it; a page accepted at any attempt, the last one
\* included, is reconciled in full, on every page.
C4_RetryBound ==
    /\ [](attempt \in 0..(QUERY_MAX_RETRIES - 1))
    /\ [][pc = "fetch" /\ raised' = "transient" => attempt = QUERY_MAX_RETRIES - 1]_vars
    /\ [][pc = "fetch" /\ attempt = QUERY_MAX_RETRIES - 1 => pc' # "fetch"]_vars
    /\ [][pc = "fetch" /\ pc' = "fetch" => attempt' = attempt + 1 /\ offset' = offset]_vars
    /\ [][pc = "fetch" /\ pc' \notin {"fetch", "failed"} =>
             /\ raised' = "none"
             /\ pc' = "classify" => rows' # <<>> /\ row_i' = 1]_vars
    /\ [](pc = "page_end" =>
            /\ raised = "none"
            /\ total_query_count = offset + Len(rows)
            /\ Len(query_file) = total_query_count)

\* a later page has failed max_retries times in a row and the run is aborted
C4_Witness ==
    /\ pc = "failed" /\ raised = "transient"
    /\ attempt = QUERY_MAX_RETRIES - 1
    /\ offset > 0
    /\ Len(query_file) = offset

\* C5: when a page fetch exhausts its retries, the run halts and reports the
\* cumulative statistics gathered from the pages reconciled before the failure.
C5_PartialStatsReported ==
    pc = "failed" /\ raised = "transient" =>
        summary = <<Stats(total_query_count, boundary_excluded_count, mismatch_count)>>

\* the identity key of a sink row: signature, txn_index and trade_index, a
\* missing index being 0
Coerce0(text) == IF text = "" THEN "0" ELSE text
IdentityKey(csvrow) ==
    <<csvrow.signature, Coerce0(csvrow.txn_index), Coerce0(csvrow.trade_index)>>

\* C6: an event delivered by both the stream and the query with the same
\* signature, txn_index and trade_index (a missing index being 0 on both
\* paths) is classified matched.
C6_SameKeyMatched ==
    \A i \in 1..Len(outcomes) :
        (\E j \in 1..Len(stream_file) :
            /\ stream_file[j].blocktime = query_file[i].blocktime
            /\ IdentityKey(stream_file[j]) = IdentityKey(query_file[i]))
        => outcomes[i] = "matched"

\* C7: a record whose blocktime is empty or whose signature is absent is
\* never written to the live sink, added to the live index, written to the
\* query sinks or classified.
C7_MalformedDiscarded ==
    /\ \A r \in Range(stream_file) \cup Range(query_file) \cup Range(mismatch_file) :
           r.blocktime # <<>> /\ r.signature # ""
    /\ \A k \in stream_keys : k[1] # ""

\* C8: when the live transport ends unexpectedly (the inbound sequence ends or
\* the transport raises), the live leg ends like a cancellation: the sink is
\* closed and the run goes on to main with the state collected, not failed.
C8_DisconnectIsCancellation ==
    pc \notin {"collect", "cancelled", "ended"} =>
        ~stream_open /\ raised # "transport"

\* smallest and largest blocktime of the live sink, by str comparison
SinkTimes == { stream_file[i].blocktime : i \in 1..Len(stream_file) }
SinkMin == CHOOSE t \in SinkTimes : \A u \in SinkTimes : ~LexLess(u, t)
SinkMax == CHOOSE t \in SinkTimes : \A u \in SinkTimes : ~LexLess(t, u)

\* the RunState is the one the records accepted so far produce
StateOfSink ==
    /\ state.count = Len(stream_file)
    /\ state.min_time = IF stream_file = <<>> THEN <<>> ELSE <<SinkMin>>
    /\ state.max_time = IF stream_file = <<>> THEN <<>> ELSE <<SinkMax>>

\* C9: on operator cancellation run_stream ends normally and returns the
\* RunState whose count, min_time and max_time are those of the records
\* accepted before the cancellation, none lost or reset.
C9_CancelPreservesState ==
    /\ [](pc = "cancelled" => raised = "none" /\ pending = <<>> /\ StateOfSink)
    /\ [][pc = "collect" /\ pc' = "cancelled" =>
             state' = state /\ stream_file' = stream_file]_vars
    /\ [][pc = "cancelled" =>
             /\ pc' = "returned" /\ raised' = "none"
             /\ state' = state /\ stream_file' = stream_file]_vars

C9_Witness ==
    /\ pc = "cancelled"
    /\ state.count = 2
    /\ state.min_time # state.max_time

RECURSIVE MissedUpTo(_)
MissedUpTo(n) ==
    IF n = 0 THEN <<>>
    ELSE IF outcomes[n] = "missed" THEN Append(MissedUpTo(n - 1), query_file[n])
    ELSE MissedUpTo(n - 1)

\* C11: after every record of the row loop, the query sink holds every
\* normalized query record in page order whatever its class, one row per
\* counted record, and the mismatch sink holds exactly the records classified
\* missed, mismatch_count rows, each of them also a row of the query sink.
C11_SinksFollowCounters ==
    /\ Len(query_file) = total_query_count
    /\ Len(outcomes) = Len(query_file)
    /\ Len(mismatch_file) = mismatch_count
    /\ mismatch_file = MissedUpTo(Len(outcomes))
    /\ Range(mismatch_file) \subseteq Range(query_file)
    /\ pc \in {"classify", "page_end"} =>
           /\ Len(query_file) = offset + row_i - 1
           /\ \A k \in 1..(row_i - 1) : query_file[offset + k] = QueryRow(rows[k])

C11_Witness ==
    /\ pc = "page_end" /\ offset > 0
    /\ mismatch_file # <<>>
    /\ Len(mismatch_file) < Len(query_file)
    /\ \E i \in 1..Len(outcomes) : outcomes[i] = "boundary_excluded"

\* the worked example: the live sink holds S1 (0,0) and S2 (1,0), the window
\* is 00:00:05 .. 00:00:10 and the query source returned S1 at :05, S3 at :05
\* and S2 at :10, in that order
ScenarioRun ==
    /\ stream_keys = { <<"S1", "0", "0">>, <<"S2", "1", "0">> }
    /\ since = T05
    /\ till = T10
    /\ query_file = << CsvRow(T05, "S1", PyInt0, PyInt0),
                       CsvRow(T05, "S3", PyInt0, PyInt0),
                       CsvRow(T10, "S2", PyInt1, PyInt0) >>

\* C12: in the worked example S1 and S2 are matched, S3 is not in the live
\* index but lies in the first second of the window and is boundary-excluded:
\* total_query_count = 3, boundary_excluded_count = 1, mismatch_count = 0.
C12_Scenario ==
    ScenarioRun =>
        /\ outcomes = << "matched", "boundary_excluded", "matched" >>
        /\ total_query_count = 3
        /\ boundary_excluded_count = 1
        /\ mismatch_count = 0
        /\ mismatch_file = <<>>
        /\ Summarized => summary = << Stats(3, 1, 0) >>

C12_Witness == ScenarioRun /\ Summarized

\* C13: a record is written and flushed to the live sink before it is
\* counted. In every reachable state, which is every state a crash can leave
\* behind, the live sink has at least count rows and at most count + 1; the
\* counter moves by one and only for a row already in the sink, and rows of
\* the sink are never removed or altered.
C13_WrittenBeforeCounted ==
    /\ [](/\ state.count <= Len(stream_file)
          /\ Len(stream_file) <= state.count + 1
          /\ Len(stream_file) = state.count + 1 => pc = "collect" /\ task = "update")
    /\ [][/\ Len(stream_file') >= Len(stream_file)
          /\ SubSeq(stream_file', 1, Len(stream_file)) = stream_file
          /\ state'.count # state.count =>
                 /\ state'.count = state.count + 1
                 /\ stream_file' = stream_file
                 /\ Len(stream_file) = state'.count
                 /\ stream_file[state'.count] = StreamRow(Head(pending))]_vars

\* a row is in the sink and not yet counted, after an earlier counted row
C13_Witness ==
    /\ pc = "collect" /\ task = "update"
    /\ state.count >= 1
    /\ Len(stream_file) = state.count + 1

QueryLegBegun ==
    \/ pc \in {"fetch", "classify", "page_end"}
    \/ sinks # "unopened"
    \/ requested # <<>>
    \/ stream_keys # {}

\* C14: the two legs never overlap. Once the live sink has been read into
\* the index, or a page has been requested, the collector has terminated and
\* the live sink is closed; from the moment the live leg has returned no row
\* is written to the live sink and the run state is not modified.
C14_LegsDoNotOverlap ==
    /\ [](QueryLegBegun =>
              /\ ~stream_open
              /\ task = "await" /\ pending = <<>>
              /\ state.count = Len(stream_file))
    /\ [][pc # "collect" => stream_file' = stream_file /\ state' = state
                            /\ stream_open' = FALSE]_vars

\* the second page is being reconciled after a live leg that kept two rows
C14_Witness ==
    /\ pc = "classify" /\ offset > 0
    /\ state.count = 2
    /\ ~stream_open

\* rows of the payload in hand that write_trade has not written yet
Unwritten == IF task = "update" THEN Len(pending) - 1 ELSE Len(pending)

\* C15: after the operator's stop signal no payload arriving later is
\* accepted: nothing is added to the rows waiting to be written, only rows of
\* the payload already in hand are written and counted, and the live leg
\* leaves the collecting position without any further input.
C15_StopEndsLiveLeg ==
    /\ [][sigint =>
              /\ Len(pending') <= Len(pending)
              /\ Len(stream_file') + Unwritten' = Len(stream_file) + Unwritten
              /\ task = "await" => stream_file' = stream_file /\ state' = state]_vars
    /\ (sigint ~> pc # "collect")

\* the signal arrived while the first row of a payload was being written
C15_Witness ==
    /\ pc = "collect" /\ sigint
    /\ task = "update" /\ Len(pending) = 2

\* C16: the offsets requested are 0, QUERY_LIMIT, 2 * QUERY_LIMIT, ... in
\* increasing order without a gap; the offset moves only by QUERY_LIMIT and
\* only at the end of a page that was fetched full, never across the
\* attempts of one fetch; and each fetched page is reconciled once: at the end
\* of a page the records counted are those of all pages up to it.
C16_OffsetsInOrder ==
    /\ [](/\ \A i \in 1..Len(requested) : requested[i] = (i - 1) * QUERY_LIMIT
          /\ requested # <<>> /\ pc # "fetch" => requested[Len(requested)] = offset
          /\ pc = "fetch" => Len(requested) * QUERY_LIMIT \in {offset, offset + QUERY_LIMIT}
          /\ pc = "page_end" =>
                 /\ row_i = Len(rows) + 1
                 /\ total_query_count = offset + Len(rows))
    /\ [][/\ offset' # offset =>
                 /\ pc = "page_end" /\ pc' = "fetch"
                 /\ offset' = offset + QUERY_LIMIT
                 /\ Len(rows) = QUERY_LIMIT
                 /\ fetched_len = << QUERY_LIMIT >>
          /\ pc = "fetch" /\ pc' = "fetch" => offset' = offset /\ attempt' = attempt + 1
          /\ pc = "fetch" /\ pc' = "classify" => rows' # <<>> /\ row_i' = 1]_vars

\* the second page is being fetched again after a failed attempt
C16_Witness ==
    /\ pc = "fetch" /\ attempt > 0
    /\ requested = << 0, QUERY_LIMIT >>
    /\ offset = QUERY_LIMIT
    /\ total_query_count = QUERY_LIMIT

\* C17: exhaustion is decided by the size of the page the query source
\* returned: after a page of QUERY_LIMIT trades the paginator requests the
\* next offset even when normalization dropped some of them, so the run is
\* never summarized with a full page as the last one fetched.
C17_ExhaustionByReturnedSize ==
    Summarized => fetched_len # << QUERY_LIMIT >>

\* a trade of the right type with its required fields
ValidTrade(t) == t.dict /\ t.Time # <<>> /\ t.Signature.ty # "none"

\* the payload is a list of trades of which exactly one is malformed
OneMalformed(result) ==
    /\ result.shape # "other" /\ result.kind = "list"
    /\ Cardinality({ i \in 1..Len(result.trades) : ~ValidTrade(result.trades[i]) }) = 1
    /\ \E i \in 1..Len(result.trades) : ValidTrade(result.trades[i])

ValidReturned(result, out) ==
    \A i \in 1..Len(result.trades) :
        ValidTrade(result.trades[i]) =>
            \E k \in 1..Len(out) : << out[k] >> = parse_trade(result.trades[i])

\* C18: a malformed item (wrong type or missing required field) is dropped
\* alone: when a payload with one malformed item and some valid items is
\* normalized, in the live leg or in the query leg, every valid item is among
\* the rows returned.
C18_MalformedDroppedAlone ==
    [][/\ \A result \in StreamPayloads :
              OneMalformed(result) /\ Receive(result) => ValidReturned(result, pending')
       /\ \A result \in QueryPayloads(QUERY_LIMIT) :
              OneMalformed(result) /\ FetchPage(result) => ValidReturned(result, rows')]_vars

\* a is not above b in str order
LexLeq(a, b) == a = b \/ ~LexLess(b, a)

\* blocktimes of the accepted records: the rows write_trade has counted
AcceptedTimes == { stream_file[i].blocktime : i \in 1..state.count }

\* C19: count is the number of accepted records, min_time and max_time are
\* the smallest and largest of their blocktimes in str order, min_time is not
\* above max_time, and both are unset exactly when count is 0; count never
\* decreases, min_time never increases and max_time never decreases.
C19_RunStateRange ==
    /\ [](/\ state.count \in 0..Len(stream_file)
          /\ state.min_time = <<>> <=> state.count = 0
          /\ state.max_time = <<>> <=> state.count = 0
          /\ state.count > 0 =>
                 /\ state.min_time[1] \in AcceptedTimes
                 /\ state.max_time[1] \in AcceptedTimes
                 /\ \A u \in AcceptedTimes :
                        LexLeq(state.min_time[1], u) /\ LexLeq(u, state.max_time[1])
                 /\ LexLeq(state.min_time[1], state.max_time[1]))
    /\ [][/\ state'.count >= state.count
          /\ state.count > 0 =>
                 /\ state'.min_time # <<>> /\ state'.max_time # <<>>
                 /\ LexLeq(state'.min_time[1], state.min_time[1])
                 /\ LexLeq(state.max_time[1], state'.max_time[1])]_vars

\* the second accepted record lowered min_time and left max_time
C19_Witness ==
    /\ state.count = 2 /\ task = "await"
    /\ state.min_time = << stream_file[2].blocktime >>
    /\ state.max_time = << stream_file[1].blocktime >>
    /\ state.min_time # state.max_time

\* C20: the live index and the window are built once, from the closed live
\* sink and the run state, before the first page is requested, and no later
\* step changes them; so a query record with a given key and blocktime gets
\* the same class every time it is classified, also on a later page.
C20_IndexFixedClassDeterministic ==
    /\ [](sinks # "unopened" =>
              /\ requested = <<>> => pc = "fetch" /\ outcomes = <<>>
              /\ stream_keys = LoadStreamKeys(stream_file)
              /\ << since >> = state.min_time /\ << till >> = state.max_time
              /\ \A i, j \in 1..Len(outcomes) :
                     query_file[i] = query_file[j] => outcomes[i] = outcomes[j])
    /\ [][sinks # "unopened" =>
              stream_keys' = stream_keys /\ since' = since /\ till' = till]_vars

\* the same record came on the first page and on the second and is not in
\* the live index
C20_Witness ==
    \E i \in 1..QUERY_LIMIT : \E j \in (QUERY_LIMIT + 1)..Len(outcomes) :
        /\ query_file[i] = query_file[j]
        /\ outcomes[j] # "matched"

====
